---- MODULE Spec2Model ----
(***************************************************************************)
(* A model of the SOCKS5 client of rclarey/socks5 (client.ts, utils.ts):   *)
(* the address codec, Client.#connectAndRequest, Client.connect and the    *)
(* UDP relay returned by Client.listenDatagram.                            *)
(*                                                                         *)
(* Strings are sequences of Unicode code points, byte arrays are sequences *)
(* of numbers in 0..255, error objects are records [msg, arg, res].        *)
(***************************************************************************)
EXTENDS Integers, Sequences, FiniteSets, TLC

\* ------------------------------------------------------------------------
\* Protocol constants (client.ts:4-31)
\* ------------------------------------------------------------------------
SOCKS_VERSION == 5
USERNAME_PASSWORD_AUTH_VERSION == 1
AddrType_IPv4 == 1
AddrType_DomainName == 3
AddrType_IPv6 == 4
AuthMethod_NoAuth == 0
AuthMethod_UsernamePassword == 2
AuthMethod_NoneAcceptable == 255
ReplyStatus_Success == 0
Command_Connect == 1
Command_UdpAssociate == 3

NULL == [null |-> TRUE]

\* ------------------------------------------------------------------------
\* Error values
\* ------------------------------------------------------------------------
Err(m, a) == [msg |-> m, arg |-> a, res |-> ""]

\* Deno.errors.UnexpectedEof thrown by readN with the missing byte count
UnexpectedEof(missing) ==
  Err("reached EOF but we expected to read more bytes", missing)

\* the error a close() primitive throws, one object per failed close
CloseError(resource) == [msg |-> "BadResource", arg |-> 0, res |-> resource]

\* decodeError without the case of ReplyStatus.TTLExpired
decodeErrorNoTTL(status) ==
  CASE status = 1 -> "general SOCKS server failure"
    [] status = 2 -> "connection not allowed by ruleset"
    [] status = 3 -> "Network unreachable"
    [] status = 4 -> "Host unreachable"
    [] status = 5 -> "Connection refused"
    [] status = 7 -> "Command not supported"
    [] status = 8 -> "Address type not supported"
    [] OTHER -> "unknown SOCKS error"

decodeError(status) ==
  CASE status = 1 -> "general SOCKS server failure"
    [] status = 2 -> "connection not allowed by ruleset"
    [] status = 3 -> "Network unreachable"
    [] status = 4 -> "Host unreachable"
    [] status = 5 -> "Connection refused"
    [] status = 6 -> "TTL expired"
    [] status = 7 -> "Command not supported"
    [] status = 8 -> "Address type not supported"
    [] OTHER -> "unknown SOCKS error"

\* ------------------------------------------------------------------------
\* Bytes and text
\* ------------------------------------------------------------------------
\* element conversion of Uint8Array.from: numbers wrap modulo 256
ToUint8(x) == x % 256

Uint8ArrayFrom(xs) == [i \in 1..Len(xs) |-> ToUint8(xs[i])]

RECURSIVE Flatten(_)
Flatten(ss) ==
  IF Len(ss) = 0 THEN <<>>
  ELSE IF Len(ss) = 1 THEN ss[1]
  ELSE LET h == Len(ss) \div 2
       IN Flatten(SubSeq(ss, 1, h)) \o Flatten(SubSeq(ss, h + 1, Len(ss)))

\* UTF-8 encoding of one code point (TextEncoder)
Utf8(cp) ==
  IF cp < 128 THEN <<cp>>
  ELSE IF cp < 2048 THEN <<192 + (cp \div 64), 128 + (cp % 64)>>
  ELSE IF cp < 65536
    THEN <<224 + (cp \div 4096), 128 + ((cp \div 64) % 64), 128 + (cp % 64)>>
  ELSE <<240 + (cp \div 262144), 128 + ((cp \div 4096) % 64),
         128 + ((cp \div 64) % 64), 128 + (cp % 64)>>

TextEncode(s) == Flatten([i \in 1..Len(s) |-> Utf8(s[i])])

IsCont(b) == b >= 128 /\ b < 192

\* UTF-8 decoding (TextDecoder, non-fatal): an ill-formed byte decodes to
\* U+FFFD; bytes below 128 decode to themselves
RECURSIVE TextDecode(_)
TextDecode(bs) ==
  IF \A i \in 1..Len(bs) : bs[i] < 128 THEN bs
  ELSE LET b == bs[1]
           n == Len(bs)
       IN IF b < 128 THEN <<b>> \o TextDecode(Tail(bs))
          ELSE IF b >= 194 /\ b < 224 /\ n >= 2 /\ IsCont(bs[2])
            THEN <<(b - 192) * 64 + (bs[2] - 128)>>
                   \o TextDecode(SubSeq(bs, 3, n))
          ELSE IF b >= 224 /\ b < 240 /\ n >= 3 /\ IsCont(bs[2])
                  /\ IsCont(bs[3])
                  /\ (b - 224) * 4096 + (bs[2] - 128) * 64 >= 2048
            THEN <<(b - 224) * 4096 + (bs[2] - 128) * 64 + (bs[3] - 128)>>
                   \o TextDecode(SubSeq(bs, 4, n))
          ELSE <<65533>> \o TextDecode(Tail(bs))

IsDigit(c) == c >= 48 /\ c <= 57
IsHexDigit(c) ==
  IsDigit(c) \/ (c >= 65 /\ c <= 70) \/ (c >= 97 /\ c <= 102)
HexVal(c) == IF IsDigit(c) THEN c - 48
             ELSE IF c >= 97 THEN c - 87 ELSE c - 55

\* String(n) for a non-negative integer
RECURSIVE String(_)
String(n) == IF n < 10 THEN <<48 + n>> ELSE String(n \div 10) \o <<48 + (n % 10)>>

RECURSIVE Join(_, _)
Join(parts, sep) ==
  IF parts = <<>> THEN <<>>
  ELSE IF Len(parts) = 1 THEN parts[1]
  ELSE parts[1] \o <<sep>> \o Join(Tail(parts), sep)

\* s.split(sep) for a one-character separator
RECURSIVE Split(_, _)
Split(s, sep) ==
  IF \A i \in 1..Len(s) : s[i] # sep THEN <<s>>
  ELSE LET k == CHOOSE i \in 1..Len(s) :
                  s[i] = sep /\ \A j \in 1..(i - 1) : s[j] # sep
       IN <<SubSeq(s, 1, k - 1)>> \o Split(SubSeq(s, k + 1, Len(s)), sep)

RECURSIVE DecVal(_)
DecVal(s) == IF s = <<>> THEN 0
             ELSE DecVal(SubSeq(s, 1, Len(s) - 1)) * 10 + (s[Len(s)] - 48)

\* Number(s) followed by the Uint8Array element conversion: a string of
\* decimal digits is its value, the empty string is 0, and a string that is
\* not a numeric literal is NaN, which converts to 0
NumberToUint8(s) ==
  IF \A i \in 1..Len(s) : IsDigit(s[i]) THEN ToUint8(DecVal(s)) ELSE 0

RECURSIVE HexValOf(_)
HexValOf(s) == IF s = <<>> THEN 0
               ELSE HexValOf(SubSeq(s, 1, Len(s) - 1)) * 16 + HexVal(s[Len(s)])

\* ------------------------------------------------------------------------
\* Address codec (client.ts:56-116)
\* ------------------------------------------------------------------------
Digits(s, from, n) ==
  from + n - 1 <= Len(s) /\ \A i \in from..(from + n - 1) : IsDigit(s[i])

\* /^(?:\d{1,3}\.){3}\d{1,3}/ : anchored at the start only
v4Pattern(s) ==
  \E a, b, c \in 1..3 :
    /\ Digits(s, 1, a)
    /\ Len(s) >= a + 1 /\ s[a + 1] = 46
    /\ Digits(s, a + 2, b)
    /\ Len(s) >= a + b + 2 /\ s[a + b + 2] = 46
    /\ Digits(s, a + b + 3, c)
    /\ Len(s) >= a + b + c + 3 /\ s[a + b + c + 3] = 46
    /\ Digits(s, a + b + c + 4, 1)

\* /^(?:[A-F0-9]{1,4}:){7}[A-F0-9]{1,4}$/i
v6Pattern(s) ==
  LET parts == Split(s, 58)
  IN /\ Len(parts) = 8
     /\ \A i \in 1..8 :
          /\ Len(parts[i]) >= 1 /\ Len(parts[i]) <= 4
          /\ \A j \in 1..Len(parts[i]) : IsHexDigit(parts[i][j])

serializeAddress(hostname, port) ==
  LET portBytes == <<port \div 256, port % 256>>
  IN IF v4Pattern(hostname)
       THEN LET parts == Split(hostname, 46)
            IN Uint8ArrayFrom(<<AddrType_IPv4>>
                 \o [i \in 1..Len(parts) |-> NumberToUint8(parts[i])]
                 \o portBytes)
     ELSE IF v6Pattern(hostname)
       THEN LET parts == Split(hostname, 58)
            IN Uint8ArrayFrom(<<AddrType_IPv6>>
                 \o Flatten([i \in 1..Len(parts) |->
                      <<HexValOf(parts[i]) \div 256, HexValOf(parts[i]) % 256>>])
                 \o portBytes)
     ELSE LET bytes == TextEncode(hostname)
          IN Uint8ArrayFrom(<<AddrType_DomainName, Len(bytes)>>
               \o bytes \o portBytes)

\* hostname part of deserializeAddress for an IPv4 address (client.ts:91-92)
FormatIPv4(parts) == Join([i \in 1..Len(parts) |-> String(parts[i])], 46)

\* hostname part of deserializeAddress for an IPv6 address (client.ts:95-100)
FormatIPv6(buff) ==
  Join([i \in 1..(Len(buff) \div 2) |->
          String(buff[2 * i - 1] * 256 + buff[2 * i])], 58)


\* number of bytes the next readN of deserializeAddress asks for, after the
\* bytes bs of the address have been read: 0 when the address is complete,
\* -1 when the type byte is not a known address type (client.ts:88-113)
AddrNextRead(bs) ==
  IF Len(bs) = 0 THEN 1
  ELSE IF bs[1] = AddrType_IPv4
    THEN (IF Len(bs) = 1 THEN 4 ELSE IF Len(bs) = 5 THEN 2 ELSE 0)
  ELSE IF bs[1] = AddrType_IPv6
    THEN (IF Len(bs) = 1 THEN 16 ELSE IF Len(bs) = 17 THEN 2 ELSE 0)
  ELSE IF bs[1] = AddrType_DomainName
    THEN (IF Len(bs) = 1 THEN 1
          ELSE IF Len(bs) = 2 /\ bs[2] > 0 THEN bs[2]
          ELSE IF Len(bs) = 2 + bs[2] THEN 2
          ELSE 0)
  ELSE -1

\* the value deserializeAddress returns once all its reads have completed
AddrValue(bs) ==
  LET n == Len(bs)
      port == bs[n - 1] * 256 + bs[n]
  IN IF bs[1] = AddrType_IPv4
       THEN [hostname |-> FormatIPv4(SubSeq(bs, 2, 5)), port |-> port,
             bytesRead |-> 4 + 3]
     ELSE IF bs[1] = AddrType_IPv6
       THEN [hostname |-> FormatIPv6(SubSeq(bs, 2, 17)), port |-> port,
             bytesRead |-> 16 + 3]
     ELSE [hostname |-> TextDecode(SubSeq(bs, 3, 2 + bs[2])), port |-> port,
           bytesRead |-> (bs[2] + 1) + 3]

UnexpectedAddressType(type) == Err("unexpected address type: ", type)

\* deserializeAddress(uint8ArrayToReader(arr)): the reads are served from
\* the array, a read past its end is an end of stream (utils.ts:1-32)
RECURSIVE deserializeFrom(_, _)
deserializeFrom(arr, got) ==
  LET n == AddrNextRead(got)
      rest == Len(arr) - Len(got)
  IN IF n = -1 THEN [ok |-> FALSE, err |-> UnexpectedAddressType(got[1])]
     ELSE IF n = 0 THEN [ok |-> TRUE, value |-> AddrValue(got)]
     ELSE IF rest < n THEN [ok |-> FALSE, err |-> UnexpectedEof(n - rest)]
     ELSE deserializeFrom(arr, SubSeq(arr, 1, Len(got) + n))

\* deserializeAddress on a reader that serves zero bytes past the array's end
deserializeAddressPadded(arr) ==
  deserializeFrom(arr \o [i \in 1..260 |-> 0], <<>>)

deserializeAddress(arr) == deserializeFrom(arr, <<>>)

\* ------------------------------------------------------------------------
\* Bounds and input sets
\* ------------------------------------------------------------------------
\* tasks that call send(), receive() or await isReady
NumCallers == 1
\* bytes the proxy sends after its reply; writes made on the tunnel
MaxData == 1

Callers == 1..NumCallers

Str_1_2_3_4 == <<49, 46, 50, 46, 51, 46, 52>>        \* "1.2.3.4"
Str_a_b == <<97, 46, 98>>                            \* "a.b"
Str_127_0_0_1 == <<49, 50, 55, 46, 48, 46, 48, 46, 49>>   \* "127.0.0.1"
LongName == [i \in 1..256 |-> 97]                    \* "aaa...a", 256 chars

\* the client configurations: #config without and with credentials
Configs ==
  { [hasAuth |-> FALSE, username |-> <<>>, password |-> <<>>],
    [hasAuth |-> TRUE, username |-> <<117, 233>>, password |-> <<112>>],
    [hasAuth |-> TRUE, username |-> LongName, password |-> <<112>>] }

\* the options passed to connect(): hostname may be left out
ConnectOpts ==
  { [hasHostname |-> TRUE, hostname |-> Str_1_2_3_4, port |-> 1234],
    [hasHostname |-> TRUE, hostname |-> Str_a_b, port |-> 80],
    [hasHostname |-> FALSE, hostname |-> <<>>, port |-> 8080] }
\* the options passed to listenDatagram() and the address of the socket
ListenOpts ==
  { [hasHostname |-> TRUE, hostname |-> Str_127_0_0_1, port |-> 2000] }
UdpLocalAddr == [hostname |-> Str_127_0_0_1, port |-> 2000]
\* what is written to the tunnel
TunnelPayloads == { <<5, 1, 0>> }

\* what the proxy may answer at each step
MethodReplies == { <<5, 0>>, <<5, 2>>, <<5, 255>>, <<4, 0>>, <<4, 255>>,
                   <<6, 2>> }
AuthReplies == { <<1, 0>>, <<1, 1>>, <<2, 0>>, <<2, 1>> }
ReplyAddresses == { <<1, 1, 2, 3, 4, 4, 210>>, <<3, 1, 97, 0, 80>>, <<2>> }
RequestReplies ==
  { <<5, 0, 0>> \o a : a \in ReplyAddresses }
    \cup { <<5, s, 0>> : s \in (1..9) \cup {255} }
    \cup { <<4, 0, 0>>, <<4, 1, 0>>, <<0, 0, 0>> }

\* datagrams the relay forwards: 00 00 00, an IPv4, IPv6 or domain-name
\* address, a payload; and datagrams with a non-zero reserved or fragment
\* byte
Datagrams == { <<0, 0, 0, 1, 1, 2, 3, 4, 4, 210, 7, 8>>,
               <<0, 0, 0, 4, 32, 1, 13, 184, 0, 0, 0, 0, 0, 0, 0, 0, 0, 0,
                 0, 1, 0, 53, 8>>,
               <<0, 0, 0, 3, 3, 97, 46, 98, 0, 80, 9, 9, 9>>,
               <<1, 0, 0, 1, 1, 2, 3, 4, 4, 210, 5>>,
               <<0, 1, 0, 1, 1, 2, 3, 4, 4, 210, 6>>,
               <<0, 0, 1, 1, 1, 2, 3, 4, 4, 210, 7>> }
SendPayload == <<9, 9>>

\* hosts and ports handed to the address codec
Str_255_0_10_99 == <<50, 53, 53, 46, 48, 46, 49, 48, 46, 57, 57>>
Str_1_2_3_4_5 == <<49, 46, 50, 46, 51, 46, 52, 46, 53>>     \* "1.2.3.4.5"
Str_1_to_8 == <<49, 58, 50, 58, 51, 58, 52, 58, 53, 58, 54, 58, 55, 58, 56>>
\* "2001:db8:0:0:0:0:0:1"
Str_2001_db8 == <<50, 48, 48, 49, 58, 100, 98, 56, 58, 48, 58, 48, 58, 48, 58,
                  48, 58, 48, 58, 49>>
Str_e_acute == <<233, 46, 102, 114>>                       \* "\u00e9.fr"
Name255 == [i \in 1..255 |-> 97]                           \* 255 chars
CodecHosts == { Str_1_2_3_4, Str_127_0_0_1, Str_255_0_10_99, Str_1_2_3_4_5,
                Str_1_to_8, Str_2001_db8, Str_a_b, Str_e_acute, Name255,
                LongName }
CodecPorts == { 0, 80, 1234, 65535 }


\* ------------------------------------------------------------------------
\* State
\* ------------------------------------------------------------------------
VARIABLES
  op,           \* the call being modelled: "connect" or "listenDatagram"
  config,       \* Client.#config (credentials part)
  opts,         \* the options of the call: [hasHostname, hostname, port]
  target,       \* hostname and port passed to #connectAndRequest
  npc,          \* position of #connectAndRequest
  rd,           \* the readN in progress: [need, out]
  abuf,         \* bytes deserializeAddress has read from the connection
  methodReply,  \* [negotiationVersion, method] once read, else empty
  authReply,    \* [authVersion, status] once read, else empty
  requestReply, \* [replyVersion, status, _] once read, else empty
  closeThrew,   \* whether conn.close() threw inside a reply check
  conn,         \* control connection: "none", "open" or "closed"
  peer,         \* the proxy's side of it: "open", "eof" or "reset"
  srvOut,       \* bytes the proxy has queued
  inbox,        \* bytes that have arrived and are not read yet
  wire,         \* the messages written on the connection, in order
  nConnects,    \* number of Deno.connect calls
  nerr,         \* error thrown by #connectAndRequest, else NULL
  tunnel,       \* the Deno.TcpConn connect() returned, else NULL
  connectErr,   \* the error connect() rejected with, else NULL
  udpConn,      \* local datagram socket: "none", "open" or "closed"
  proxyInfo,    \* null or [addr]
  isReady,      \* the readiness promise: [state, err]
  wpc,          \* the watcher: "off", "reading" or "done"
  userClosed,   \* whether close() of the DatagramConn has been called
  lastClose,    \* the last run of close(): who, attempts, errors, raised
  callers,      \* per task: [kind, pc, arg, res, again, out]; arg is the
                \* addr passed to send(), res the datagram udpConn.receive
                \* returned last, again whether receive() called itself
  udpSent,      \* datagrams sent on the local socket: [to, msg]
  stream,       \* the bytes on the connection after the handshake: sent
                \* counts the bytes the proxy sent after its reply, read is
                \* what the tunnel's reads returned, passed the arrays given
                \* to the tunnel's write, out what those writes put on the
                \* connection (after the messages of wire)
  codec         \* a call of the address codec on its own: [pc, hostname,
                \* port, bytes, arr, out]

negVars == <<npc, rd, abuf, methodReply, authReply, requestReply, closeThrew,
             nerr>>
connVars == <<conn, peer, srvOut, inbox, wire, nConnects>>
tcpVars == <<tunnel, connectErr>>
relayVars == <<udpConn, proxyInfo, isReady, wpc, lastClose>>
userVars == <<callers, udpSent, userClosed>>
cfgVars == <<op, config, opts, target>>
clientVars == <<cfgVars, negVars, connVars, tcpVars, relayVars, userVars,
                stream>>
vars == <<clientVars, codec>>

NoClose == [by |-> "none", attempted |-> <<>>, errors |-> <<>>,
            raised |-> NULL]
NoOut == [status |-> "none", err |-> NULL, payload |-> <<>>, addr |-> NULL]
IdleCaller == [kind |-> "none", pc |-> "idle", arg |-> NULL, res |-> <<>>,
               again |-> FALSE, out |-> NoOut]

NoStream == [sent |-> 0, read |-> <<>>, passed |-> <<>>, out |-> <<>>]

NoCodec == [pc |-> "off", hostname |-> <<>>, port |-> 0, bytes |-> <<>>,
            arr |-> <<>>, out |-> [ok |-> FALSE, err |-> NULL]]

\* nothing has run yet
AtRest ==
  /\ stream = NoStream
  /\ npc = "connect"
  /\ rd = [need |-> 0, out |-> <<>>]
  /\ abuf = <<>>
  /\ methodReply = <<>> /\ authReply = <<>> /\ requestReply = <<>>
  /\ closeThrew = FALSE
  /\ conn = "none" /\ peer = "open" /\ srvOut = <<>> /\ inbox = <<>>
  /\ wire = <<>>
  /\ nConnects = 1
  /\ nerr = NULL
  /\ tunnel = NULL /\ connectErr = NULL
  /\ proxyInfo = NULL
  /\ isReady = [state |-> "pending", err |-> NULL]
  /\ wpc = "off"
  /\ userClosed = FALSE
  /\ lastClose = NoClose
  /\ callers = [c \in Callers |-> IdleCaller]
  /\ udpSent = <<>>

\* remoteAddr without the default for a hostname that is left out
remoteAddrNoDefault(o) == [hostname |-> o.hostname, port |-> o.port]

\* connect(): hostname: opts.hostname ?? "127.0.0.1", port: opts.port
remoteAddr(o) ==
  [hostname |-> IF o.hasHostname THEN o.hostname ELSE Str_127_0_0_1,
   port |-> o.port]

\* connect() is called on a client of any configuration, listenDatagram()
\* on one without credentials (the proxy may choose method 2 all the same)
Init ==
  /\ op \in {"connect", "listenDatagram"}
  /\ config \in (IF op = "connect" THEN Configs
                  ELSE {c \in Configs : ~c.hasAuth})
  /\ opts \in (IF op = "connect" THEN ConnectOpts ELSE ListenOpts)
  /\ target = (IF op = "connect" THEN remoteAddr(opts) ELSE UdpLocalAddr)
  /\ udpConn = (IF op = "connect" THEN "none" ELSE "open")
  /\ AtRest
  /\ codec = NoCodec

cmd == IF op = "connect" THEN Command_Connect ELSE Command_UdpAssociate

\* ------------------------------------------------------------------------
\* listenDatagram: close (client.ts:292-307)
\* ------------------------------------------------------------------------
\* closeRun with throwErr taken as true by every caller
closeRunThrows(by, connNow) ==
  LET tcpTried == proxyInfo # NULL
      tcpFails == tcpTried /\ connNow = "closed"
      udpFails == udpConn = "closed"
      err1 == IF tcpFails THEN CloseError("tcpConn") ELSE NULL
      err2 == IF udpFails THEN CloseError("udpConn") ELSE err1
  IN [conn |-> IF tcpTried THEN "closed" ELSE connNow,
      udpConn |-> "closed",
      log |-> [by |-> by,
               attempted |-> (IF tcpTried THEN <<"tcpConn">> ELSE <<>>)
                               \o <<"udpConn">>,
               errors |-> (IF tcpFails THEN <<CloseError("tcpConn")>>
                           ELSE <<>>)
                            \o (IF udpFails THEN <<CloseError("udpConn")>>
                                ELSE <<>>),
               raised |-> err2]]

\* The close() of a connection or socket that is already closed throws.
closeRun(by, connNow) ==
  LET tcpTried == proxyInfo # NULL
      tcpFails == tcpTried /\ connNow = "closed"
      udpFails == udpConn = "closed"
      err1 == IF tcpFails THEN CloseError("tcpConn") ELSE NULL
      err2 == IF udpFails THEN CloseError("udpConn") ELSE err1
  IN [conn |-> IF tcpTried THEN "closed" ELSE connNow,
      udpConn |-> "closed",
      log |-> [by |-> by,
               attempted |-> (IF tcpTried THEN <<"tcpConn">> ELSE <<>>)
                               \o <<"udpConn">>,
               errors |-> (IF tcpFails THEN <<CloseError("tcpConn")>>
                           ELSE <<>>)
                            \o (IF udpFails THEN <<CloseError("udpConn")>>
                                ELSE <<>>),
               raised |-> IF by = "user" THEN err2 ELSE NULL]]

\* ------------------------------------------------------------------------
\* The proxy
\* ------------------------------------------------------------------------
AtReplyStart == conn = "open" /\ peer = "open" /\ srvOut = <<>>
                /\ inbox = <<>> /\ rd.out = <<>>

\* the proxy queues its reply to the message the client is waiting on
ServerReply ==
  /\ AtReplyStart
  /\ \/ npc = "readMethod" /\ srvOut' \in MethodReplies
     \/ npc = "readAuth" /\ srvOut' \in AuthReplies
     \/ npc = "readReply" /\ srvOut' \in RequestReplies
  /\ UNCHANGED <<cfgVars, codec, stream, negVars, conn, peer, inbox, wire, nConnects,
                 tcpVars, relayVars, userVars>>

\* k queued bytes arrive at the client
ServerDeliver ==
  /\ conn = "open" /\ peer = "open" /\ srvOut # <<>>
  /\ \E k \in 1..Len(srvOut) :
       /\ inbox' = inbox \o SubSeq(srvOut, 1, k)
       /\ srvOut' = SubSeq(srvOut, k + 1, Len(srvOut))
  /\ UNCHANGED <<cfgVars, codec, stream, negVars, conn, peer, wire, nConnects,
                 tcpVars, relayVars, userVars>>

\* the proxy closes the connection; what it had not sent is lost
ServerClose ==
  /\ conn = "open" /\ peer = "open"
  /\ peer' = "eof"
  /\ srvOut' = <<>>
  /\ UNCHANGED <<cfgVars, codec, stream, negVars, conn, inbox, wire, nConnects,
                 tcpVars, relayVars, userVars>>

\* the connection breaks: reads on it fail from now on
ServerReset ==
  /\ conn = "open" /\ peer = "open"
  /\ peer' = "reset"
  /\ srvOut' = <<>> /\ inbox' = <<>>
  /\ UNCHANGED <<cfgVars, codec, stream, negVars, conn, wire, nConnects,
                 tcpVars, relayVars, userVars>>

\* the proxy may send data: on a tunnel as soon as it has queued its reply
\* to the request; on a relay the watcher is the first to read after the
\* reply, so bytes sent earlier are taken as sent once it runs
ReplySent ==
  IF op = "connect"
    THEN \/ npc \in {"readAddr", "done"}
         \/ npc = "readReply" /\ ~AtReplyStart
    ELSE npc = "done"

\* the i-th byte the proxy sends after its reply
DataByte(i) == 200 + i

\* after its reply the proxy sends a byte on the control connection
ServerData ==
  /\ conn = "open" /\ peer = "open" /\ ReplySent
  /\ stream.sent < MaxData
  /\ srvOut' = Append(srvOut, DataByte(stream.sent + 1))
  /\ stream' = [stream EXCEPT !.sent = @ + 1]
  /\ UNCHANGED <<cfgVars, codec, negVars, conn, peer, inbox, wire, nConnects,
                 tcpVars, relayVars, userVars>>


\* ------------------------------------------------------------------------
\* Client.#connectAndRequest (client.ts:145-238), readN (utils.ts:16-32)
\* ------------------------------------------------------------------------
\* methods with username/password offered whatever the configuration
methodsBoth == <<AuthMethod_NoAuth, AuthMethod_UsernamePassword>>

\* the method list: [NoAuth], and UsernamePassword when "username" is a
\* key of #config (client.ts:152-155)
methods == <<AuthMethod_NoAuth>>
             \o (IF config.hasAuth THEN <<AuthMethod_UsernamePassword>>
                 ELSE <<>>)

MethodsMessage == Uint8ArrayFrom(<<SOCKS_VERSION, Len(methods)>> \o methods)

\* cfg.username and cfg.password are undefined when no credentials are
\* configured, and TextEncoder encodes undefined as the empty string
AuthMessage ==
  LET username == IF config.hasAuth THEN TextEncode(config.username) ELSE <<>>
      password == IF config.hasAuth THEN TextEncode(config.password) ELSE <<>>
  IN Uint8ArrayFrom(<<USERNAME_PASSWORD_AUTH_VERSION, Len(username)>>
       \o username \o <<Len(password)>> \o password)

RequestMessage ==
  Uint8ArrayFrom(<<SOCKS_VERSION, cmd, 0>>
    \o serializeAddress(target.hostname, target.port))

\* methodCheck without the test for "none acceptable"
methodCheckVersionOnly(negotiationVersion, method) ==
  IF negotiationVersion # SOCKS_VERSION
    THEN Err("unsupported SOCKS version number: ", negotiationVersion)
    ELSE NULL

\* the error of the method reply check, NULL when the reply passes
methodCheck(negotiationVersion, method) ==
  IF negotiationVersion # SOCKS_VERSION \/ method = AuthMethod_NoneAcceptable
    THEN (IF negotiationVersion # SOCKS_VERSION
            THEN Err("unsupported SOCKS version number: ", negotiationVersion)
            ELSE Err("no acceptable authentication methods", 0))
    ELSE NULL

\* authCheck without the test of the status
authCheckVersionOnly(authVersion, status) ==
  IF authVersion # USERNAME_PASSWORD_AUTH_VERSION
    THEN Err("unsupported authentication version number: ", authVersion)
    ELSE NULL

\* the error of the subnegotiation reply check, NULL when the reply passes
authCheck(authVersion, status) ==
  IF authVersion # USERNAME_PASSWORD_AUTH_VERSION
       \/ status # ReplyStatus_Success
    THEN (IF authVersion # USERNAME_PASSWORD_AUTH_VERSION
            THEN Err("unsupported authentication version number: ",
                     authVersion)
            ELSE Err("authentication failed", 0))
    ELSE NULL

\* replyCheck with the status looked at before the version
replyCheckStatusFirst(replyVersion, status) ==
  IF replyVersion # SOCKS_VERSION \/ status # ReplyStatus_Success
    THEN (IF status # ReplyStatus_Success
            THEN Err(decodeError(status), 0)
            ELSE Err("unsupported SOCKS version number: ", replyVersion))
    ELSE NULL

\* the error of the request reply check, NULL when the reply passes
replyCheck(replyVersion, status) ==
  IF replyVersion # SOCKS_VERSION \/ status # ReplyStatus_Success
    THEN (IF replyVersion # SOCKS_VERSION
            THEN Err("unsupported SOCKS version number: ", replyVersion)
            ELSE Err(decodeError(status), 0))
    ELSE NULL

\* #connectAndRequest throws e with the connection in state connNow:
\* connect() rejects with e; the relay's isReady runs its catch block,
\* close() and rethrow (client.ts:336-339)
Raise(e, connNow) ==
  /\ npc' = "failed"
  /\ nerr' = e
  /\ IF op = "connect"
       THEN /\ connectErr' = e
            /\ conn' = connNow
            /\ UNCHANGED <<tunnel, relayVars>>
       ELSE LET r == closeRun("catch", connNow)
            IN /\ conn' = r.conn
               /\ udpConn' = r.udpConn
               /\ lastClose' = r.log
               /\ isReady' = [state |-> "rejected", err |-> e]
               /\ UNCHANGED <<proxyInfo, wpc, tcpVars>>

\* replyCheckFail with a conn.close() outside any try block
replyCheckFailUnguarded(e, closeThrows) ==
  /\ closeThrew' = closeThrows
  /\ Raise(IF closeThrows THEN CloseError("conn") ELSE e, "closed")

\* a reply check failed with e: try { conn.close() } catch {}; throw e
replyCheckFail(e, closeThrows) ==
  /\ closeThrew' = closeThrows
  /\ Raise(e, "closed")

\* #connectAndRequest returns: connect() builds the tunnel (client.ts:251-
\* 283); isReady stores proxyInfo and starts the watcher (client.ts:317-335)
Return(value) ==
  /\ npc' = "done"
  /\ nerr' = NULL
  /\ IF op = "connect"
       THEN /\ tunnel' = [localAddr |-> [hostname |-> value.hostname,
                                         port |-> value.port,
                                         transport |-> "tcp"],
                          remoteAddr |-> [hostname |-> target.hostname,
                                          port |-> target.port,
                                          transport |-> "tcp"]]
            /\ UNCHANGED <<connectErr, relayVars>>
       ELSE /\ proxyInfo' = [addr |-> [hostname |-> value.hostname,
                                       port |-> value.port,
                                       transport |-> "udp"]]
            /\ wpc' = "reading"
            /\ isReady' = [state |-> "resolved", err |-> NULL]
            /\ UNCHANGED <<udpConn, lastClose, tcpVars>>

\* Deno.connect resolves; the method message is written
DenoConnect ==
  /\ npc = "connect"
  /\ conn' = "open"
  /\ wire' = <<MethodsMessage>>
  /\ npc' = "readMethod"
  /\ rd' = [need |-> 2, out |-> <<>>]
  /\ UNCHANGED <<cfgVars, codec, stream, abuf, methodReply, authReply, requestReply,
                 closeThrew, nerr, peer, srvOut, inbox, nConnects, tcpVars,
                 relayVars, userVars>>

\* Deno.connect rejects
DenoConnectFails ==
  /\ npc = "connect"
  /\ Raise(Err("ConnectionRefused", 0), conn)
  /\ UNCHANGED <<cfgVars, codec, stream, rd, abuf, methodReply, authReply, requestReply,
                 closeThrew, peer, srvOut, inbox, wire, nConnects, userVars>>

ReadStages == {"readMethod", "readAuth", "readReply", "readAddr"}
Reading == npc \in ReadStages /\ conn = "open"
missing == rd.need - Len(rd.out)

\* readN: a read returned fewer bytes than are still needed
readNPartial ==
  /\ Reading
  /\ inbox # <<>> /\ Len(inbox) < missing
  /\ rd' = [rd EXCEPT !.out = @ \o inbox]
  /\ inbox' = <<>>
  /\ UNCHANGED <<cfgVars, codec, stream, npc, abuf, methodReply, authReply, requestReply,
                 closeThrew, nerr, conn, peer, srvOut, wire, nConnects,
                 tcpVars, relayVars, userVars>>

\* readN: a read returned null
readNEof ==
  /\ Reading
  /\ inbox = <<>> /\ peer = "eof"
  /\ Raise(UnexpectedEof(missing), conn)
  /\ UNCHANGED <<cfgVars, codec, stream, rd, abuf, methodReply, authReply, requestReply,
                 closeThrew, peer, srvOut, inbox, wire, nConnects, userVars>>

\* readN: a read threw
readNError ==
  /\ Reading
  /\ peer = "reset"
  /\ Raise(Err("ConnectionReset", 0), conn)
  /\ UNCHANGED <<cfgVars, codec, stream, rd, abuf, methodReply, authReply, requestReply,
                 closeThrew, peer, srvOut, inbox, wire, nConnects, userVars>>

\* a readN that takes everything the connection holds
readNRestGreedy == <<>>

\* readN returns: the bytes it read
readNDone == Reading /\ Len(inbox) >= missing
readNOut == rd.out \o SubSeq(inbox, 1, missing)
readNRest == SubSeq(inbox, missing + 1, Len(inbox))

\* the method reply has been read (client.ts:160-219)
MethodReplyRead ==
  /\ npc = "readMethod" /\ readNDone
  /\ inbox' = readNRest
  /\ methodReply' = readNOut
  /\ LET e == methodCheck(readNOut[1], readNOut[2])
     IN IF e # NULL
          THEN /\ \E closeThrows \in BOOLEAN : replyCheckFail(e, closeThrows)
               /\ UNCHANGED <<rd, wire>>
        ELSE IF readNOut[2] = AuthMethod_UsernamePassword
          THEN /\ wire' = Append(wire, AuthMessage)
               /\ npc' = "readAuth"
               /\ rd' = [need |-> 2, out |-> <<>>]
               /\ UNCHANGED <<closeThrew, nerr, conn, tcpVars, relayVars>>
        ELSE /\ wire' = Append(wire, RequestMessage)
             /\ npc' = "readReply"
             /\ rd' = [need |-> 3, out |-> <<>>]
             /\ UNCHANGED <<closeThrew, nerr, conn, tcpVars, relayVars>>
  /\ UNCHANGED <<cfgVars, codec, stream, abuf, authReply, requestReply, peer, srvOut,
                 nConnects, userVars>>

\* the subnegotiation reply has been read (client.ts:192-219)
AuthReplyRead ==
  /\ npc = "readAuth" /\ readNDone
  /\ inbox' = readNRest
  /\ authReply' = readNOut
  /\ LET e == authCheck(readNOut[1], readNOut[2])
     IN IF e # NULL
          THEN /\ \E closeThrows \in BOOLEAN : replyCheckFail(e, closeThrows)
               /\ UNCHANGED <<rd, wire>>
        ELSE /\ wire' = Append(wire, RequestMessage)
             /\ npc' = "readReply"
             /\ rd' = [need |-> 3, out |-> <<>>]
             /\ UNCHANGED <<closeThrew, nerr, conn, tcpVars, relayVars>>
  /\ UNCHANGED <<cfgVars, codec, stream, abuf, methodReply, requestReply, peer, srvOut,
                 nConnects, userVars>>

\* the first three bytes of the request reply have been read
\* (client.ts:220-236)
RequestReplyRead ==
  /\ npc = "readReply" /\ readNDone
  /\ inbox' = readNRest
  /\ requestReply' = readNOut
  /\ LET e == replyCheck(readNOut[1], readNOut[2])
     IN IF e # NULL
          THEN /\ \E closeThrows \in BOOLEAN : replyCheckFail(e, closeThrows)
               /\ UNCHANGED <<rd, abuf>>
        ELSE /\ npc' = "readAddr"
             /\ abuf' = <<>>
             /\ rd' = [need |-> AddrNextRead(<<>>), out |-> <<>>]
             /\ UNCHANGED <<closeThrew, nerr, conn, tcpVars, relayVars>>
  /\ UNCHANGED <<cfgVars, codec, stream, methodReply, authReply, peer, srvOut, wire,
                 nConnects, userVars>>

\* one readN of deserializeAddress(conn) has returned (client.ts:87-116)
AddrRead ==
  /\ npc = "readAddr" /\ readNDone
  /\ inbox' = readNRest
  /\ LET got == abuf \o readNOut
         n == AddrNextRead(got)
     IN /\ abuf' = got
        /\ IF n = -1
             THEN /\ Raise(UnexpectedAddressType(got[1]), conn)
                  /\ UNCHANGED rd
           ELSE IF n = 0
             THEN /\ Return(AddrValue(got))
                  /\ UNCHANGED <<rd, conn>>
           ELSE /\ rd' = [need |-> n, out |-> <<>>]
                /\ UNCHANGED <<npc, nerr, conn, tcpVars, relayVars>>
  /\ UNCHANGED <<cfgVars, codec, stream, methodReply, authReply, requestReply, closeThrew,
                 peer, srvOut, wire, nConnects, userVars>>


\* ------------------------------------------------------------------------
\* connect: the returned Deno.TcpConn (client.ts:258-283)
\* ------------------------------------------------------------------------
\* read: conn.read.bind(conn); the read returned k bytes
TunnelRead ==
  /\ tunnel # NULL /\ conn = "open"
  /\ inbox # <<>>
  /\ \E k \in 1..Len(inbox) :
       /\ stream' = [stream EXCEPT !.read = @ \o SubSeq(inbox, 1, k)]
       /\ inbox' = SubSeq(inbox, k + 1, Len(inbox))
  /\ UNCHANGED <<cfgVars, codec, negVars, conn, peer, srvOut, wire, nConnects,
                 tcpVars, relayVars, userVars>>

\* write: conn.write.bind(conn)
TunnelWrite ==
  /\ tunnel # NULL /\ conn = "open" /\ peer # "reset"
  /\ Len(stream.passed) < MaxData
  /\ \E p \in TunnelPayloads :
       stream' = [stream EXCEPT !.passed = Append(@, p), !.out = @ \o p]
  /\ UNCHANGED <<cfgVars, codec, negVars, connVars, tcpVars, relayVars,
                 userVars>>

\* close: conn.close.bind(conn)
TunnelClose ==
  /\ tunnel # NULL /\ conn = "open"
  /\ conn' = "closed"
  /\ UNCHANGED <<cfgVars, codec, stream, negVars, peer, srvOut, inbox, wire,
                 nConnects, tcpVars, relayVars, userVars>>

\* ------------------------------------------------------------------------
\* listenDatagram: watcher (client.ts:326-335)
\* ------------------------------------------------------------------------
\* a watcher that leaves its loop after the first read, whatever it returned
WatcherDiscardCloses ==
  /\ wpc = "reading" /\ conn = "open"
  /\ inbox # <<>>
  /\ inbox' = SubSeq(inbox, (IF Len(inbox) < 1024 THEN Len(inbox) ELSE 1024)
                              + 1, Len(inbox))
  /\ LET r == closeRun("watcher", conn)
     IN /\ conn' = r.conn
        /\ udpConn' = r.udpConn
        /\ lastClose' = r.log
  /\ wpc' = "done"
  /\ UNCHANGED <<cfgVars, codec, stream, negVars, peer, srvOut, wire,
                 nConnects, tcpVars, proxyInfo, isReady, userVars>>

\* conn.read(buff) returned a byte count: the bytes are dropped
WatcherDiscard ==
  /\ wpc = "reading" /\ conn = "open"
  /\ inbox # <<>>
  /\ inbox' = SubSeq(inbox, (IF Len(inbox) < 1024 THEN Len(inbox) ELSE 1024)
                              + 1, Len(inbox))
  /\ UNCHANGED <<cfgVars, codec, stream, negVars, conn, peer, srvOut, wire, nConnects,
                 tcpVars, relayVars, userVars>>

\* WatcherClose with the close() after the loop left out
WatcherCloseNothing ==
  /\ wpc = "reading"
  /\ \/ conn = "closed"
     \/ peer = "reset"
     \/ inbox = <<>> /\ peer = "eof"
  /\ wpc' = "done"
  /\ UNCHANGED <<cfgVars, codec, stream, negVars, connVars, tcpVars, udpConn, lastClose,
                 proxyInfo, isReady, userVars>>

\* WatcherClose with a close() that closes the control connection only
WatcherCloseTcpOnly ==
  /\ wpc = "reading"
  /\ \/ conn = "closed"
     \/ peer = "reset"
     \/ inbox = <<>> /\ peer = "eof"
  /\ LET r == closeRun("watcher", conn)
     IN /\ conn' = r.conn
        /\ lastClose' = r.log
  /\ wpc' = "done"
  /\ UNCHANGED <<cfgVars, codec, stream, negVars, peer, srvOut, inbox, wire,
                 nConnects, tcpVars, udpConn, proxyInfo, isReady, userVars>>

\* conn.read(buff) returned null or threw: leave the loop and close()
WatcherClose ==
  /\ wpc = "reading"
  /\ \/ conn = "closed"
     \/ peer = "reset"
     \/ inbox = <<>> /\ peer = "eof"
  /\ LET r == closeRun("watcher", conn)
     IN /\ conn' = r.conn
        /\ udpConn' = r.udpConn
        /\ lastClose' = r.log
  /\ wpc' = "done"
  /\ UNCHANGED <<cfgVars, codec, stream, negVars, peer, srvOut, inbox, wire, nConnects,
                 tcpVars, proxyInfo, isReady, userVars>>

\* ------------------------------------------------------------------------
\* listenDatagram: the returned DatagramConn (client.ts:342-389)
\* ------------------------------------------------------------------------
Failed(e) == [status |-> "error", err |-> e, payload |-> <<>>, addr |-> NULL]
Ok(payload, addr) ==
  [status |-> "ok", err |-> NULL, payload |-> payload, addr |-> addr]

\* the addr argument of send()
SendDests == { [hostname |-> Str_1_to_8, port |-> 5678],
               [hostname |-> Str_a_b, port |-> 53] }

\* close() of the DatagramConn: close(true)
UserClose ==
  /\ op = "listenDatagram"
  /\ userClosed' = TRUE
  /\ LET r == closeRun("user", conn)
     IN /\ conn' = r.conn
        /\ udpConn' = r.udpConn
        /\ lastClose' = r.log
  /\ UNCHANGED <<cfgVars, codec, stream, negVars, peer, srvOut, inbox, wire, nConnects,
                 tcpVars, proxyInfo, isReady, wpc, callers, udpSent>>

\* doSend with the datagram addressed to the destination itself
doSendToDestination(c, addr) ==
  LET serializedAddress == serializeAddress(addr.hostname, addr.port)
      msg == <<0, 0, 0>> \o serializedAddress \o SendPayload
  IN IF udpConn = "open"
       THEN /\ udpSent' = Append(udpSent,
                  [to |-> [hostname |-> addr.hostname, port |-> addr.port,
                           transport |-> "udp"],
                   msg |-> msg])
            /\ callers' = [callers EXCEPT ![c].pc = "done",
                                          ![c].kind = "send",
                                          ![c].arg = addr,
                                          ![c].out = Ok(<<>>, NULL)]
       ELSE /\ callers' = [callers EXCEPT ![c].pc = "done",
                             ![c].kind = "send",
                             ![c].arg = addr,
                             ![c].out = Failed(CloseError("udpConn"))]
            /\ UNCHANGED udpSent

\* the part of send(p, addr) after its wait: frame the payload and hand it
\* to udpConn.send (client.ts:354-362)
doSend(c, addr) ==
  LET serializedAddress == serializeAddress(addr.hostname, addr.port)
      msg == <<0, 0, 0>> \o serializedAddress \o SendPayload
  IN IF udpConn = "open"
       THEN /\ udpSent' = Append(udpSent, [to |-> proxyInfo.addr, msg |-> msg])
            /\ callers' = [callers EXCEPT ![c].pc = "done",
                                          ![c].kind = "send",
                                          ![c].arg = addr,
                                          ![c].out = Ok(<<>>, NULL)]
       ELSE /\ callers' = [callers EXCEPT ![c].pc = "done",
                             ![c].kind = "send",
                             ![c].arg = addr,
                             ![c].out = Failed(CloseError("udpConn"))]
            /\ UNCHANGED udpSent

\* send() with a negotiation of its own when the relay is not ready
sendNegotiates(c) ==
  /\ op = "listenDatagram"
  /\ callers[c].pc = "idle"
  /\ \E addr \in SendDests :
       IF proxyInfo = NULL
         THEN /\ callers' = [callers EXCEPT ![c].kind = "send",
                                            ![c].arg = addr,
                                            ![c].pc = "await"]
              /\ nConnects' = nConnects + 1
              /\ UNCHANGED udpSent
         ELSE /\ doSend(c, addr)
              /\ UNCHANGED nConnects
  /\ UNCHANGED <<cfgVars, codec, stream, negVars, conn, peer, srvOut, inbox, wire,
                 tcpVars, relayVars, userClosed>>

\* a task calls send(p, addr): if (!proxyInfo) await isReady
send(c) ==
  /\ op = "listenDatagram"
  /\ callers[c].pc = "idle"
  /\ \E addr \in SendDests :
       IF proxyInfo = NULL
         THEN /\ callers' = [callers EXCEPT ![c].kind = "send",
                                            ![c].arg = addr,
                                            ![c].pc = "await"]
              /\ UNCHANGED udpSent
         ELSE doSend(c, addr)
  /\ UNCHANGED <<cfgVars, codec, stream, negVars, connVars, tcpVars, relayVars, userClosed>>

\* the addr getter of a relay that never reports the relay endpoint
addrLocalOnly ==
  [hostname |-> UdpLocalAddr.hostname, port |-> UdpLocalAddr.port,
   transport |-> "udp"]

\* get addr(): proxyInfo ? proxyInfo.addr : udpConn.addr
addr ==
  IF proxyInfo # NULL
    THEN proxyInfo.addr
    ELSE [hostname |-> UdpLocalAddr.hostname, port |-> UdpLocalAddr.port,
          transport |-> "udp"]

\* receive() without the wait for isReady
receiveNoWait(c) ==
  /\ op = "listenDatagram"
  /\ callers[c].pc = "idle"
  /\ callers' = [callers EXCEPT ![c].kind = "receive", ![c].pc = "recv"]
  /\ UNCHANGED <<cfgVars, codec, stream, negVars, connVars, tcpVars, relayVars, udpSent, userClosed>>

\* a task calls receive(): if (!proxyInfo) await isReady
receive(c) ==
  /\ op = "listenDatagram"
  /\ callers[c].pc = "idle"
  /\ callers' = [callers EXCEPT ![c].kind = "receive",
                   ![c].pc = IF proxyInfo = NULL THEN "await" ELSE "recv"]
  /\ UNCHANGED <<cfgVars, codec, stream, negVars, connVars, tcpVars, relayVars, udpSent, userClosed>>

\* a task reads the isReady getter and awaits it
awaitIsReady(c) ==
  /\ op = "listenDatagram"
  /\ callers[c].pc = "idle"
  /\ callers' = [callers EXCEPT ![c].kind = "isReady", ![c].pc = "await"]
  /\ UNCHANGED <<cfgVars, codec, stream, negVars, connVars, tcpVars, relayVars, udpSent, userClosed>>

\* isReady settled: a task waiting on it resumes
Resume(c) ==
  /\ callers[c].pc = "await"
  /\ isReady.state # "pending"
  /\ IF isReady.state = "rejected"
       THEN /\ callers' = [callers EXCEPT ![c].pc = "done",
                                          ![c].out = Failed(isReady.err)]
            /\ UNCHANGED udpSent
     ELSE IF callers[c].kind = "isReady"
       THEN /\ callers' = [callers EXCEPT ![c].pc = "done",
                                          ![c].out = Ok(<<>>, NULL)]
            /\ UNCHANGED udpSent
     ELSE IF callers[c].kind = "send"
       THEN doSend(c, callers[c].arg)
     ELSE /\ callers' = [callers EXCEPT ![c].pc = "recv"]
          /\ UNCHANGED udpSent
  /\ UNCHANGED <<cfgVars, codec, stream, negVars, connVars, tcpVars, relayVars, userClosed>>

\* NonZeroAt that looks at the two reserved bytes only
NonZeroAtReserved(res, i) == i < 3 /\ Len(res) >= i /\ res[i] # 0

NonZeroAt(res, i) == Len(res) >= i /\ res[i] # 0

\* udpConn.receive settled inside receive() (client.ts:369-383): the socket
\* is closed, or a datagram has arrived and is handed over; a datagram with
\* a non-zero byte among its first three makes receive() call itself
Received(c) ==
  /\ callers[c].pc = "recv"
  /\ IF udpConn # "open"
       THEN /\ callers' = [callers EXCEPT ![c].pc = "done",
                             ![c].out = Failed(CloseError("udpConn"))]
       ELSE /\ \E res \in Datagrams :
                 LET d == deserializeAddress(SubSeq(res, 4, Len(res)))
                 IN IF NonZeroAt(res, 1) \/ NonZeroAt(res, 2)
                         \/ NonZeroAt(res, 3)
                      THEN callers' = [callers EXCEPT ![c].res = res,
                                                      ![c].again = TRUE]
                    ELSE IF d.ok
                      THEN callers' = [callers EXCEPT
                             ![c].pc = "done",
                             ![c].res = res,
                             ![c].out =
                               Ok(SubSeq(res, 3 + d.value.bytesRead + 1,
                                         Len(res)),
                                  [hostname |-> d.value.hostname,
                                   port |-> d.value.port,
                                   transport |-> "udp"])]
                    ELSE callers' = [callers EXCEPT ![c].pc = "done",
                                                    ![c].res = res,
                                                    ![c].out = Failed(d.err)]
  /\ UNCHANGED <<cfgVars, codec, stream, negVars, connVars, tcpVars, relayVars, udpSent,
                 userClosed>>

\* ------------------------------------------------------------------------
\* Specification
\* ------------------------------------------------------------------------
Next ==
  \/ DenoConnect
  \/ DenoConnectFails
  \/ ServerReply
  \/ ServerDeliver
  \/ ServerClose
  \/ ServerReset
  \/ ServerData
  \/ readNPartial
  \/ readNEof
  \/ readNError
  \/ MethodReplyRead
  \/ AuthReplyRead
  \/ RequestReplyRead
  \/ AddrRead
  \/ TunnelRead
  \/ TunnelWrite
  \/ TunnelClose
  \/ WatcherDiscard
  \/ WatcherClose
  \/ UserClose
  \/ \E c \in Callers : send(c)
  \/ \E c \in Callers : receive(c)
  \/ \E c \in Callers : awaitIsReady(c)
  \/ \E c \in Callers : Resume(c)
  \/ \E c \in Callers : Received(c)

Spec == Init /\ [][Next]_vars

\* the event loop runs every continuation whose operation has settled
FairSpec ==
  Spec /\ WF_vars(WatcherDiscard) /\ WF_vars(WatcherClose)


\* ------------------------------------------------------------------------
\* The address codec on its own: serializeAddress(hostname, port), then
\* deserializeAddress(uint8ArrayToReader(bytes)) on what it returned
\* ------------------------------------------------------------------------
CodecInit ==
  /\ op = "none"
  /\ config = CHOOSE c \in Configs : ~c.hasAuth
  /\ opts \in ListenOpts
  /\ target = UdpLocalAddr
  /\ udpConn = "none"
  /\ AtRest
  /\ \E h \in CodecHosts, p \in CodecPorts :
       codec = [NoCodec EXCEPT !.pc = "input", !.hostname = h, !.port = p]

Serialize ==
  /\ codec.pc = "input"
  /\ codec' = [codec EXCEPT
                 !.pc = "encoded",
                 !.bytes = serializeAddress(codec.hostname, codec.port)]
  /\ UNCHANGED clientVars

Deserialize ==
  /\ codec.pc = "encoded"
  /\ codec' = [codec EXCEPT !.pc = "decoded",
                            !.arr = codec.bytes,
                            !.out = deserializeAddress(codec.bytes)]
  /\ UNCHANGED clientVars

\* deserializeAddress on a reader that ends before the end of the encoding
DeserializeCut ==
  /\ codec.pc = "encoded"
  /\ \E n \in 0..(Len(codec.bytes) - 1) :
       LET arr == SubSeq(codec.bytes, 1, n)
       IN codec' = [codec EXCEPT !.pc = "cut",
                                 !.arr = arr,
                                 !.out = deserializeAddress(arr)]
  /\ UNCHANGED clientVars

\* type bytes that are no AddrType
OtherTypes == { 0, 2, 5, 255 }

\* deserializeAddress on bytes whose first byte is no AddrType
DeserializeOtherType ==
  /\ codec.pc = "encoded"
  /\ \E t \in OtherTypes, n \in 1..Len(codec.bytes) :
       LET arr == <<t>> \o SubSeq(codec.bytes, 2, n)
       IN codec' = [codec EXCEPT !.pc = "mistyped",
                                 !.arr = arr,
                                 !.out = deserializeAddress(arr)]
  /\ UNCHANGED clientVars

CodecNext ==
  Serialize \/ Deserialize \/ DeserializeCut \/ DeserializeOtherType

CodecSpec == CodecInit /\ [][CodecNext]_vars

\* ------------------------------------------------------------------------
\* Properties
\* ------------------------------------------------------------------------
\* #connectAndRequest has thrown e to its caller and nothing usable exists
FailedWith(e) ==
  /\ npc = "failed"
  /\ nerr = e
  /\ tunnel = NULL
  /\ proxyInfo = NULL
  /\ IF op = "connect" THEN connectErr = e
     ELSE isReady = [state |-> "rejected", err |-> e]

VersionMismatch(v) == Err("unsupported SOCKS version number: ", v)
NoAcceptableMethod == Err("no acceptable authentication methods", 0)
AuthVersionMismatch(v) ==
  Err("unsupported authentication version number: ", v)
AuthenticationFailed == Err("authentication failed", 0)

\* C1: on a relay, once the control connection has been opened, the local
\* socket is closed exactly when the control connection is closed, in every
\* state (close() during a pending negotiation included).
C1_PairClosedTogether ==
  (op = "listenDatagram" /\ conn # "none")
    => ((udpConn = "closed") <=> (conn = "closed"))

C3_ControlEndClosesSocket ==
  (isReady.state = "resolved" /\ peer \in {"eof", "reset"})
    ~> (udpConn = "closed")

\* the watcher alone closed the pair after the proxy closed the connection
C3_Witness ==
  /\ isReady.state = "resolved"
  /\ peer = "eof"
  /\ ~userClosed
  /\ wpc = "done"
  /\ lastClose.by = "watcher"
  /\ udpConn = "closed"

\* C4: when isReady is rejected, the local socket and the control connection
\* (if one was opened) are both closed and isReady carries the failure of the
\* negotiation.
C4_FailureClosesBoth ==
  (op = "listenDatagram" /\ isReady.state = "rejected")
    => /\ udpConn = "closed"
       /\ conn \in {"none", "closed"}
       /\ isReady.err = nerr

\* C5: when connect() has failed, no control connection is left open.
C5_ConnectFailureClosesConn ==
  (op = "connect" /\ connectErr # NULL) => conn # "open"

\* C6: when a handshake reply fails its check (method reply version not 5,
\* method 0xFF, auth reply version not 1, auth status not 0), the connection
\* is closed, the failure raised is the one of the check even if the close
\* threw, and no message follows the one the reply answered.
C6_HandshakeFailureCloses ==
  /\ (methodReply # <<>>
        /\ (methodReply[1] # 5 \/ methodReply[2] = 255))
       => /\ conn = "closed"
          /\ FailedWith(IF methodReply[1] # 5
                          THEN VersionMismatch(methodReply[1])
                          ELSE NoAcceptableMethod)
          /\ wire = <<MethodsMessage>>
  /\ (authReply # <<>> /\ (authReply[1] # 1 \/ authReply[2] # 0))
       => /\ conn = "closed"
          /\ FailedWith(IF authReply[1] # 1
                          THEN AuthVersionMismatch(authReply[1])
                          ELSE AuthenticationFailed)
          /\ wire = <<MethodsMessage, AuthMessage>>

\* an auth reply failed its check and the close of the connection threw
C6_Witness ==
  /\ authReply # <<>>
  /\ authReply[2] # 0
  /\ closeThrew
  /\ conn = "closed"
  /\ npc = "failed"

\* C7: an explicit close() attempts the control connection (if present) and
\* the local socket, and raises the first error it met; the close() of the
\* failure path and of the watcher raises nothing.
C7_CloseRaisesFirstError ==
  /\ lastClose.by = "user"
       => /\ lastClose.attempted \in {<<"udpConn">>, <<"tcpConn", "udpConn">>}
          /\ lastClose.raised = (IF lastClose.errors = <<>> THEN NULL
                                 ELSE lastClose.errors[1])
  /\ lastClose.by \in {"catch", "watcher"} => lastClose.raised = NULL

\* C8: a method reply or a request reply whose version byte is not 5 makes
\* the operation fail with the version mismatch error naming that byte, and
\* no tunnel or Ready relay results.
C8_VersionMismatch ==
  /\ (methodReply # <<>> /\ methodReply[1] # 5)
       => FailedWith(VersionMismatch(methodReply[1]))
  /\ (requestReply # <<>> /\ requestReply[1] # 5)
       => FailedWith(VersionMismatch(requestReply[1]))

\* a request reply with version 4 and a failure status has been read
C8_Witness ==
  /\ requestReply # <<>>
  /\ requestReply[1] = 4
  /\ requestReply[2] = 1
  /\ npc = "failed"

\* C9: a method reply (5, 0xFF) makes the negotiation fail with the "no
\* acceptable authentication methods" error, with or without credentials,
\* and neither a credential message nor a request is written.
C9_NoAcceptableMethod ==
  (methodReply = <<5, 255>>)
    => /\ FailedWith(NoAcceptableMethod)
       /\ wire = <<MethodsMessage>>

\* the proxy refused the methods of a client that has credentials
C9_Witness ==
  /\ methodReply = <<5, 255>>
  /\ config.hasAuth
  /\ npc = "failed"

\* C10: with credentials configured and method 2 chosen, the second message
\* written is [1][userLen][user][passLen][pass] with the configured username
\* and password; an auth reply version other than 1 fails with the auth
\* version error, otherwise a non-zero status fails with "authentication
\* failed", and only (1, 0) is followed by the request.
C10_Subnegotiation ==
  (config.hasAuth /\ methodReply = <<5, 2>>)
    => LET user == TextEncode(config.username)
           pass == TextEncode(config.password)
       IN /\ Len(wire) >= 2
          /\ wire[2] = <<1, Len(user)>> \o user \o <<Len(pass)>> \o pass
          /\ authReply # <<>> =>
               IF authReply[1] # 1
                 THEN FailedWith(AuthVersionMismatch(authReply[1]))
               ELSE IF authReply[2] # 0
                 THEN FailedWith(AuthenticationFailed)
               ELSE Len(wire) = 3 /\ wire[3] = RequestMessage

\* C11: the first message written is [5][n][methods] where the n methods
\* listed contain 0, contain 2 exactly when credentials are configured, and
\* nothing else.
C11_MethodList ==
  wire # <<>> =>
    LET m == wire[1]
        listed == {m[i] : i \in 3..Len(m)}
    IN /\ Len(m) >= 3
       /\ m[1] = 5
       /\ m[2] = Len(m) - 2
       /\ 0 \in listed
       /\ (2 \in listed) <=> config.hasAuth
       /\ listed \subseteq {0, 2}

\* a client with credentials has written 05 02 00 02
C11_Witness ==
  /\ config.hasAuth
  /\ wire # <<>>
  /\ wire[1] = <<5, 2, 0, 2>>

\* the messages one invocation writes, given the method the proxy chose
ExpectedWrites ==
  <<MethodsMessage>>
    \o (IF methodReply # <<>> /\ methodReply[2] = 2 THEN <<AuthMessage>>
        ELSE <<>>)
    \o <<RequestMessage>>

\* C12: one connection is opened; the messages written are a prefix of
\* [method message, credential message if method 2 was chosen, request];
\* a second message is written only once the method reply has been read and
\* accepted, and the request only once the auth reply, when method 2 was
\* chosen, has been read and is (1, 0).
C12_SequentialWrites ==
  /\ nConnects = 1
  /\ Len(wire) <= Len(ExpectedWrites)
  /\ wire = SubSeq(ExpectedWrites, 1, Len(wire))
  /\ conn = "none" => wire = <<>>
  /\ Len(wire) >= 2
       => /\ methodReply # <<>>
          /\ methodReply[1] = 5
          /\ methodReply[2] # 255
  /\ (Len(wire) >= 2 /\ Len(wire) = Len(ExpectedWrites))
       => (methodReply[2] = 2 => authReply = <<1, 0>>)
  /\ authReply # <<>> => (methodReply # <<>> /\ methodReply[2] = 2)
  /\ requestReply # <<>> => Len(wire) = Len(ExpectedWrites)

\* all three messages have been written, each after the reply before it
C12_Witness ==
  /\ Len(wire) = 3
  /\ methodReply = <<5, 2>>
  /\ authReply = <<1, 0>>
  /\ requestReply # <<>>

\* the message of each status of the status table
StatusTable ==
  [s \in 1..8 |->
     CASE s = 1 -> "general SOCKS server failure"
       [] s = 2 -> "connection not allowed by ruleset"
       [] s = 3 -> "Network unreachable"
       [] s = 4 -> "Host unreachable"
       [] s = 5 -> "Connection refused"
       [] s = 6 -> "TTL expired"
       [] s = 7 -> "Command not supported"
       [] s = 8 -> "Address type not supported"]

\* C13: after a request reply of version 5, status 0 passes the reply check
\* (no status error is raised), a status in 1..8 fails the operation with
\* the message of the status table, and any other status fails it with the
\* generic unknown-error message.
C13_StatusTable ==
  (requestReply # <<>> /\ requestReply[1] = 5)
    => LET s == requestReply[2]
       IN IF s = 0
            THEN /\ npc \in {"readAddr", "done", "failed"}
                 /\ nerr # Err("unknown SOCKS error", 0)
                 /\ \A k \in 1..8 : nerr # Err(StatusTable[k], 0)
          ELSE IF s \in 1..8 THEN FailedWith(Err(StatusTable[s], 0))
          ELSE FailedWith(Err("unknown SOCKS error", 0))

\* the proxy answered the request with status 6
C13_Witness ==
  /\ requestReply = <<5, 6, 0>>
  /\ nerr = Err("TTL expired", 0)
  /\ npc = "failed"

\* four decimal octets separated by dots
DottedQuad(h) ==
  LET parts == Split(h, 46)
  IN /\ Len(parts) = 4
     /\ \A i \in 1..4 :
          /\ Len(parts[i]) \in 1..3
          /\ \A j \in 1..Len(parts[i]) : IsDigit(parts[i][j])
          /\ DecVal(parts[i]) <= 255

\* eight groups of one to four hexadecimal digits separated by colons
ColonHex(h) ==
  LET parts == Split(h, 58)
  IN /\ Len(parts) = 8
     /\ \A i \in 1..8 :
          /\ Len(parts[i]) \in 1..4
          /\ \A j \in 1..Len(parts[i]) : IsHexDigit(parts[i][j])

\* a domain name: a host that is neither of these and does not begin like a
\* dotted quad
DomainName(h) == ~DottedQuad(h) /\ ~ColonHex(h) /\ ~v4Pattern(h)

PortBytes(port) == <<port \div 256, port % 256>>

\* C14: for a host that is a dotted quad, eight colon-separated hexadecimal
\* groups, or a domain name of at most 255 bytes, decoding the encoding of
\* (host, port) succeeds with the same host string, the same port, and a
\* consumed byte count equal to the length of the encoding.
C14_RoundTrip ==
  (/\ codec.pc = "decoded"
   /\ \/ DottedQuad(codec.hostname)
      \/ ColonHex(codec.hostname)
      \/ DomainName(codec.hostname)
           /\ Len(TextEncode(codec.hostname)) <= 255)
    => /\ codec.out.ok
       /\ codec.out.value.hostname = codec.hostname
       /\ codec.out.value.port = codec.port
       /\ codec.out.value.bytesRead = Len(codec.bytes)

\* C15: encoding a domain name whose UTF-8 encoding is longer than 255 bytes
\* produces no output.
C15_DomainTooLong ==
  (/\ codec.pc \in {"encoded", "decoded"}
   /\ DomainName(codec.hostname)
   /\ Len(TextEncode(codec.hostname)) > 255)
    => codec.bytes = <<>>

\* C16: when method 2 was chosen and the username or the password is longer
\* than 255 bytes, no credential message is written and the negotiation
\* fails.
C16_CredentialTooLong ==
  (/\ config.hasAuth
   /\ methodReply = <<5, 2>>
   /\ \/ Len(TextEncode(config.username)) > 255
      \/ Len(TextEncode(config.password)) > 255)
    => /\ wire = <<MethodsMessage>>
       /\ npc = "failed"

\* C17: the encoding of a host the encoder takes for IPv4 is 7 bytes, type
\* 1, the four decimal octets of the host, the port; of a host it takes for
\* IPv6 19 bytes, type 4, the eight groups as two bytes each, the port; of
\* any other host (of at most 255 bytes) type 3, the byte length of the host,
\* its bytes, the port.
C17_EncodingLayout ==
  codec.pc \in {"encoded", "decoded"}
    => LET h == codec.hostname
           b == codec.bytes
       IN IF v4Pattern(h)
            THEN LET parts == Split(h, 46)
                 IN /\ Len(b) = 7
                    /\ Len(parts) = 4
                    /\ b = <<1>> \o [i \in 1..4 |-> DecVal(parts[i])]
                              \o PortBytes(codec.port)
          ELSE IF v6Pattern(h)
            THEN LET parts == Split(h, 58)
                 IN /\ Len(b) = 19
                    /\ b = <<4>>
                         \o [i \in 1..16 |->
                              IF i % 2 = 1
                                THEN HexValOf(parts[(i + 1) \div 2]) \div 256
                                ELSE HexValOf(parts[i \div 2]) % 256]
                         \o PortBytes(codec.port)
          ELSE Len(TextEncode(h)) <= 255
                 => b = <<3, Len(TextEncode(h))>> \o TextEncode(h)
                          \o PortBytes(codec.port)

HeaderNonZero(d) == d[1] # 0 \/ d[2] # 0 \/ d[3] # 0

\* C18: a datagram with a non-zero byte among its first three is never
\* returned by receive(): taking it leaves the call pending and changes
\* nothing else of the relay (nothing is closed, no error is raised); a
\* receive() that returns does so with a datagram whose first three bytes
\* are zero, and with bytes of its tail as payload.
C18_DropsNonZeroHeader ==
  /\ [](\A c \in Callers :
         LET k == callers[c]
         IN /\ (k.res # <<>> /\ HeaderNonZero(k.res))
                 => /\ k.out.status # "ok"
                    /\ k.pc = "done" => k.out = Failed(CloseError("udpConn"))
            /\ (k.kind = "receive" /\ k.out.status = "ok")
                 => /\ k.res # <<>>
                    /\ ~HeaderNonZero(k.res)
                    /\ k.out.payload
                         = SubSeq(k.res, Len(k.res) - Len(k.out.payload) + 1,
                                  Len(k.res)))
  /\ [][udpConn = "open"
         => \A c \in Callers :
              (/\ callers[c].pc = "recv"
               /\ callers'[c] # callers[c]
               /\ HeaderNonZero(callers'[c].res))
                => /\ callers'[c] = [callers[c] EXCEPT
                                       !.res = callers'[c].res,
                                       !.again = TRUE]
                   /\ callers'[c].pc = "recv"
                   /\ UNCHANGED <<relayVars, connVars, udpSent,
                                  userClosed>>]_vars

\* a receive() returned a datagram after it had ignored another one
C18_Witness ==
  \E c \in Callers :
    /\ callers[c].kind = "receive"
    /\ callers[c].again
    /\ callers[c].pc = "done"
    /\ callers[c].out.status = "ok"
    /\ udpConn = "open"

HexDigit(d) == IF d < 10 THEN 48 + d ELSE 87 + d

\* n in hexadecimal, lower case, without leading zeros
RECURSIVE HexString(_)
HexString(n) ==
  IF n < 16 THEN <<HexDigit(n)>>
  ELSE HexString(n \div 16) \o <<HexDigit(n % 16)>>

Lower(s) ==
  [i \in 1..Len(s) |-> IF s[i] >= 65 /\ s[i] <= 90 THEN s[i] + 32 ELSE s[i]]

\* length of the address encoding that starts at byte 4 of a datagram
AddressLength(d) ==
  IF d[4] = 1 THEN 7 ELSE IF d[4] = 4 THEN 19 ELSE d[5] + 4

\* the host the address at byte 4 of a datagram denotes: dotted decimal,
\* colon-separated hexadecimal groups, or the name
AddressHost(d) ==
  IF d[4] = 1 THEN Join([i \in 1..4 |-> String(d[4 + i])], 46)
  ELSE IF d[4] = 4
    THEN Join([i \in 1..8 |->
                 HexString(d[3 + 2 * i] * 256 + d[4 + 2 * i])], 58)
  ELSE SubSeq(d, 6, 5 + d[5])

AddressPort(d) ==
  d[3 + AddressLength(d) - 1] * 256 + d[3 + AddressLength(d)]

\* C19: a receive() that returns for a datagram 00 00 00 <address>
\* <payload> returns as source the host and port the address denotes (IPv4,
\* IPv6 or domain name) with transport udp, and as payload exactly the bytes
\* after the address.
C19_ReceiveDecodes ==
  \A c \in Callers :
    LET k == callers[c]
    IN (k.kind = "receive" /\ k.pc = "done" /\ k.res # <<>>
          /\ ~HeaderNonZero(k.res))
         => /\ k.out.status = "ok"
            /\ k.out.payload
                 = SubSeq(k.res, 3 + AddressLength(k.res) + 1, Len(k.res))
            /\ (IF k.res[4] = 4 THEN Lower(k.out.addr.hostname)
                 ELSE k.out.addr.hostname) = AddressHost(k.res)
            /\ k.out.addr.port = AddressPort(k.res)
            /\ k.out.addr.transport = "udp"

\* the address encoding of each destination passed to send()
DestinationEncoding(dest) ==
  IF dest.hostname = Str_1_to_8
    THEN <<4, 0, 1, 0, 2, 0, 3, 0, 4, 0, 5, 0, 6, 0, 7, 0, 8, 22, 46>>
    ELSE <<3, 3, 97, 46, 98, 0, 53>>

\* the endpoint the reply to the request named
ReplyEndpoint ==
  IF abuf[1] = 1
    THEN [hostname |-> Str_1_2_3_4, port |-> 1234, transport |-> "udp"]
    ELSE [hostname |-> <<97>>, port |-> 80, transport |-> "udp"]

SentOk == {c \in Callers : /\ callers[c].kind = "send"
                           /\ callers[c].pc = "done"
                           /\ callers[c].out.status = "ok"}

C21_NothingBeforeReady ==
  isReady.state \in {"pending", "rejected"}
    => /\ udpSent = <<>>
       /\ \A c \in Callers :
            /\ callers[c].res = <<>>
            /\ callers[c].pc # "recv"
            /\ callers[c].out.status # "ok"
            /\ callers[c].pc = "done"
                 => /\ isReady.state = "rejected"
                    /\ callers[c].out = Failed(isReady.err)
                    /\ isReady.err = nerr

\* a send() issued before the negotiation failed has failed with its error
C21_Witness ==
  /\ isReady.state = "rejected"
  /\ udpSent = <<>>
  /\ \E c \in Callers :
       /\ callers[c].kind = "send"
       /\ callers[c].pc = "done"
       /\ callers[c].out = Failed(nerr)

\* C22: once the watcher has left its loop and closed the pair, no step
\* puts a datagram on the local socket and no send() or receive() ends
\* successfully.
C22_NoTrafficAfterWatcherClose ==
  [][wpc = "done"
       => /\ udpSent' = udpSent
          /\ \A c \in Callers :
               (callers'[c].kind \in {"send", "receive"}
                  /\ callers'[c].out.status = "ok")
                 => callers[c].out.status = "ok"]_vars

\* a send() made after the watcher closed the pair has failed
C22_Witness ==
  /\ wpc = "done"
  /\ ~userClosed
  /\ lastClose.by = "watcher"
  /\ udpSent = <<>>
  /\ \E c \in Callers :
       /\ callers[c].kind = "send"
       /\ callers[c].pc = "done"
       /\ callers[c].out = Failed(CloseError("udpConn"))

\* C28: a client without credentials writes no message that starts with the
\* auth version byte, whatever the proxy replies.
C28_NoCredentialMessageWithoutCredentials ==
  ~config.hasAuth
    => \A i \in 1..Len(wire) : wire[i][1] # USERNAME_PASSWORD_AUTH_VERSION

\* C29: a close() run by the watcher raises nothing, also when the pair was
\* closed by the user before and both of its close attempts throw; it
\* leaves isReady resolved.
C29_WatcherSwallowsErrors ==
  /\ [](lastClose.by = "watcher"
          => /\ lastClose.raised = NULL
             /\ isReady = [state |-> "resolved", err |-> NULL])
  /\ [][(wpc = "reading" /\ wpc' = "done") => isReady' = isReady]_vars

\* the watcher's close() ran on a pair the user had closed: both attempts
\* threw and nothing was raised
C29_Witness ==
  /\ userClosed
  /\ wpc = "done"
  /\ lastClose.by = "watcher"
  /\ lastClose.errors = <<CloseError("tcpConn"), CloseError("udpConn")>>
  /\ lastClose.raised = NULL
  /\ isReady.state = "resolved"

WellFormed(bs) ==
  /\ Len(bs) >= 2
  /\ \/ bs[1] = 1 /\ Len(bs) = 7
     \/ bs[1] = 4 /\ Len(bs) = 19
     \/ bs[1] = 3 /\ Len(bs) = 4 + bs[2]

\* C26: decoding a strict prefix (the empty one included) of an address
\* encoding fails with UnexpectedEof, and decoding bytes whose first byte is
\* not 1, 3 or 4 fails with "unexpected address type"; neither returns an
\* endpoint.
C26_ShortReadFails ==
  /\ (codec.pc = "cut" /\ WellFormed(codec.bytes))
       => /\ Len(codec.arr) < Len(codec.bytes)
          /\ ~codec.out.ok
          /\ DOMAIN codec.out = {"ok", "err"}
          /\ \E k \in 1..255 : codec.out.err = UnexpectedEof(k)
  /\ codec.pc = "mistyped"
       => /\ codec.arr[1] \notin {1, 3, 4}
          /\ codec.out = [ok |-> FALSE,
                          err |-> UnexpectedAddressType(codec.arr[1])]

\* the encoding of ("a.b", 80) without its last byte was decoded
C26_Witness ==
  /\ codec.pc = "cut"
  /\ codec.bytes = <<3, 3, 97, 46, 98, 0, 80>>
  /\ codec.arr = <<3, 3, 97, 46, 98, 0>>
  /\ codec.out = [ok |-> FALSE, err |-> UnexpectedEof(1)]

Data(n) == [i \in 1..n |-> 200 + i]

IsPrefix(a, b) == Len(a) <= Len(b) /\ a = SubSeq(b, 1, Len(a))
IsSuffix(a, b) ==
  Len(a) <= Len(b) /\ a = SubSeq(b, Len(b) - Len(a) + 1, Len(b))

\* C24: when connect() has returned, the client has read the two bytes of
\* each handshake reply, three bytes of the request reply and the bound
\* address, and none of the bytes the proxy sent after them: with the proxy's
\* end open, what the tunnel's reads returned, followed by what has arrived
\* and what is still queued, is exactly what the proxy sent after its reply;
\* reads return those bytes in order in every case; before connect() returns
\* the bytes sent after the reply are all still unread; what the tunnel's
\* writes put on the connection is the arrays passed to them, joined.
C24_PassThrough ==
  /\ tunnel # NULL
       => /\ Len(methodReply) = 2
          /\ authReply # <<>> => (Len(authReply) = 2 /\ methodReply[2] = 2)
          /\ Len(requestReply) = 3
          /\ \/ abuf[1] = 1 /\ Len(abuf) = 7
             \/ abuf[1] = 4 /\ Len(abuf) = 19
             \/ abuf[1] = 3 /\ Len(abuf) = 4 + abuf[2]
          /\ IsPrefix(stream.read, Data(stream.sent))
          /\ peer = "open"
               => stream.read \o inbox \o srvOut = Data(stream.sent)
          /\ peer = "eof"
               => IsPrefix(stream.read \o inbox, Data(stream.sent))
          /\ stream.out = Flatten(stream.passed)
  /\ (op = "connect" /\ tunnel = NULL)
       => /\ stream.read = <<>> /\ stream.passed = <<>>
          /\ peer = "open" => IsSuffix(Data(stream.sent), inbox \o srvOut)

\* the tunnel's reads returned the byte the proxy sent after its reply and
\* a write of the tunnel has been made
C24_Witness ==
  /\ tunnel # NULL
  /\ stream.sent >= 1
  /\ stream.read = Data(stream.sent)
  /\ stream.passed # <<>>
  /\ stream.out = <<5, 1, 0>>
  /\ peer = "open"

\* C27: on a relay whose isReady is resolved, as long as the proxy's end of
\* the control connection is open and close() has not been called, the
\* watcher is reading and both the connection and the socket are open,
\* whatever the proxy has sent; a read of the watcher that returns bytes
\* changes nothing of the relay; the watcher leaves its loop only when its
\* read returns null (end of stream with nothing left to read) or throws
\* (connection reset or closed).
C27_WatcherDiscardsData ==
  /\ []((/\ op = "listenDatagram"
         /\ isReady.state = "resolved"
         /\ peer = "open"
         /\ ~userClosed)
          => /\ wpc = "reading"
             /\ conn = "open"
             /\ udpConn = "open"
             /\ lastClose = NoClose)
  /\ [][(wpc = "reading" /\ Len(inbox') < Len(inbox) /\ peer' = peer)
         => /\ wpc' = "reading"
            /\ UNCHANGED <<conn, udpConn, proxyInfo, isReady, lastClose,
                           callers, udpSent>>]_vars
  /\ [][(wpc = "reading" /\ wpc' = "done")
         => \/ conn = "closed"
            \/ peer = "reset"
            \/ peer = "eof" /\ inbox = <<>>]_vars

\* the watcher has read and dropped the byte the proxy sent, and the pair
\* is open
C27_Witness ==
  /\ op = "listenDatagram"
  /\ wpc = "reading"
  /\ stream.sent >= 1
  /\ inbox = <<>> /\ srvOut = <<>>
  /\ peer = "open"
  /\ conn = "open" /\ udpConn = "open"
  /\ lastClose = NoClose

====
